---- MODULE Spec2Model ----
(***************************************************************************)
(* Model of the schema analysis pipeline of turbine's code generator:      *)
(*                                                                         *)
(*   - the reference graph and its cycle resolution                        *)
(*     (src/turbine/lib/codegen/src/analysis.rs), run on arbitrary graphs  *)
(*     under Spec / FairSpec;                                              *)
(*   - the builder of that graph, DependencyAnalyzer::new, followed by the *)
(*     cycle resolution, run twice over one store handed over in two       *)
(*     iteration orders, under BuildSpec;                                  *)
(*   - the unification of entity types with their parents,                 *)
(*     UnificationAnalyzer::run                                            *)
(*     (src/libs/turbine/lib/codegen/src/analysis/unify.rs), under         *)
(*     UnifySpec;                                                          *)
(*                                                                         *)
(* Node and edge indices are 1-based here (petgraph's are 0-based); only   *)
(* their order matters to the code.                                        *)
(***************************************************************************)
EXTENDS Integers, Sequences, FiniteSets, TLC

(***************************************************************************)
(* Bounds of the model.                                                    *)
(***************************************************************************)
MaxNodes == 3
MaxEdges == 2
\* The model keeps the first MaxCycles entries of find_cycles' `cycles`
\* vector; a search that returns never records that many (CyclesFit).
MaxCycles == 6

\* BuildSpec: the references (add_link calls) of all schemas of a store
\* together, and how deep ArrayOfPropertyValues nest inside a property type
\* (an array reference of a properties map is not counted as nesting).
MaxLinks == 2
MaxDepth == 0

\* UnifySpec: the properties and the inheritsFrom references that all the
\* schemas of a store declare together.
MaxProps == 3
MaxInherits == 2

\* analysis.rs:254  let mut iterations: usize = 1024;
IterationCap == 1024

VARIABLES
    graph,       \* Graph: [nodes: Seq(weight), edges: Seq([source, target, kind])]
    pc,          \* position inside remove_cycles
    iterations,  \* remove_cycles' countdown
    plain,       \* remove_cycles: the Plain projection of this turn of the loop
    visited,     \* find_cycles: node -> CycleState
    cycles,      \* find_cycles: Seq(Seq(edge index of the Plain projection))
    cursor,      \* find_cycles: the node the outer `for` is at
    stack,       \* process_dfs_tree: Seq(node)
    round,       \* which call of remove_cycles this is (1 or 2)
    graph0,      \* the graph the first call was given
    graph1       \* the graph the second call was given (graph0 before that)

VARIABLES
    types,       \* new: the schemas in the order the caller's store iterates them
    types0,      \* the order of the first run
    tcursor,     \* new: the schema the `for ty in types` is at
    temp,        \* new: TempGraph, [nodes: Seq(Option<Node>), edges]
    lookup,      \* new: Lookup, url -> node index (0: no entry)
    boxed1       \* the (source id, target id) pairs the first run left Boxed

cycleVars == <<graph, pc, iterations, plain, visited, cycles, cursor, stack, round, graph0, graph1>>
buildVars == <<types, types0, tcursor, temp, lookup, boxed1>>

\* UnificationAnalyzer: its fields (cache, fetch, missing, and facts for
\* facts.links), the locals of stack() and run() with the turns the loop of
\* stack() has taken, what run returned, and how often the fetch callback
\* was called for each id (calls).
VARIABLES cache, cache0, remote, hasFetch, missing, ustack, unodes, uedges,
          errors, turns, topo, upos, upc, returned, facts, calls
unifyVars == <<cache, cache0, remote, hasFetch, missing, ustack, unodes, uedges,
               errors, turns, topo, upos, upc, returned, facts, calls>>

\* process and the NameResolver: the store of process (lib.rs: `lookup`), the
\* schemas its loop has handled (with the Location of each) and its `output`;
\* the references entity::generate sorted and the locations it got for them;
\* the batch of a later call of locations and the locations it returned.
VARIABLES schemas, handled, output, references, generated, batch, located, npc
nameVars == <<schemas, handled, output, references, generated, batch, located, npc>>

vars == <<cycleVars, buildVars, unifyVars, nameVars>>

(***************************************************************************)
(* Generic helpers.                                                        *)
(***************************************************************************)
Range(s) == {s[i] : i \in 1..Len(s)}

Min(S) == CHOOSE x \in S : \A y \in S : x <= y

Max(S) == CHOOSE x \in S : \A y \in S : y <= x

RECURSIVE SortedBetween(_, _, _)
\* The elements of S between lo and hi in ascending order, by halving the
\* interval (graphs of IterationCap edges are sorted too).
SortedBetween(S, lo, hi) ==
    IF lo > hi THEN <<>>
    ELSE IF lo = hi THEN (IF lo \in S THEN <<lo>> ELSE <<>>)
    ELSE LET mid == (lo + hi) \div 2
         IN  SortedBetween(S, lo, mid) \o SortedBetween(S, mid + 1, hi)

\* The elements of a finite set of integers in ascending order.
SortedSeq(S) == IF S = {} THEN <<>> ELSE SortedBetween(S, Min(S), Max(S))

Reverse(s) == [i \in 1..Len(s) |-> s[Len(s) + 1 - i]]

(***************************************************************************)
(* EdgeKind, CycleState and the graph.                                     *)
(***************************************************************************)
EdgeKind == {"Plain", "Boxed", "Array"}
CycleState == {"Unvisited", "OnStack", "Processed"}

NodeCount(g) == Len(g.nodes)

\* graph.filter_map(|_, _| Some(()), |index, weight| (kind == Plain).then_some(index)):
\* every node is kept, the Plain edges are re-added in index order, each
\* carrying the index it has in the original graph as its weight.
PlainProjection(g) ==
    LET keep == SortedSeq({i \in 1..Len(g.edges) : g.edges[i].kind = "Plain"})
    IN  [i \in 1..Len(keep) |->
            [source |-> g.edges[keep[i]].source,
             target |-> g.edges[keep[i]].target,
             weight |-> keep[i]]]

\* petgraph keeps a node's outgoing edges in a linked list that add_edge
\* prepends to: edges_directed / neighbors_directed(a, Outgoing) walk the
\* edges of `a` from the one added last to the one added first.
EdgesDirected(es, a) ==
    Reverse(SortedSeq({i \in 1..Len(es) : es[i].source = a}))

NeighborsDirected(es, a) ==
    LET out == EdgesDirected(es, a) IN [i \in 1..Len(out) |-> es[out[i]].target]

\* graph.find_edge(a, b): the first edge a -> b in that order, 0 for None.
FindEdge(es, a, b) ==
    LET hit == {i \in 1..Len(es) : es[i].source = a /\ es[i].target = b}
    IN  IF hit = {} THEN 0 ELSE CHOOSE i \in hit : \A j \in hit : j <= i

\* cycles.push(..), keeping the first MaxCycles entries.
PushCycle(cs, c) == IF Len(cs) < MaxCycles THEN Append(cs, c) ELSE cs

(***************************************************************************)
(* record_cycle                                                            *)
(***************************************************************************)
RECURSIVE StackPath(_, _, _)
\* path: the stack from `pointer` down to the first occurrence of `node`.
StackPath(stk, pointer, node) ==
    IF stk[pointer] = node THEN <<stk[pointer]>>
    ELSE <<stk[pointer]>> \o StackPath(stk, pointer - 1, node)

record_cycle(es, stk, node) ==
    LET walked == StackPath(stk, Len(stk), node)
        path   == IF Len(walked) = 1 THEN walked \o <<walked[1]>> ELSE walked
        found  == [i \in 1..(Len(path) - 1) |-> FindEdge(es, path[i], path[i + 1])]
    IN  SelectSeq(found, LAMBDA e : e # 0)

(***************************************************************************)
(* process_dfs_tree: one iteration of `while let Some(&last) = stack.last()`*)
(* is two steps, the head of the body (self-loop, pop) and its `for`.      *)
(***************************************************************************)
Top(stk) == stk[Len(stk)]

\* Mutant: the self-loop test of lines 89-94 left out.
SelfLoopEdge_Missed(es, last) == 0

\* lines 89-92: the first outgoing edge of `last` whose target is `last`.
SelfLoopEdge(es, last) == FindEdge(es, last, last)

\* Mutant: a node is popped as soon as none of its neighbours is Unvisited.
CanPop_NoneUnvisited(es, vis, last) ==
    \A i \in 1..Len(es) :
        es[i].source = last => (es[i].target = last \/ vis[es[i].target] # "Unvisited")

\* lines 98-100: every outgoing neighbour is `last` itself or Processed.
CanPop(es, vis, last) ==
    \A i \in 1..Len(es) :
        es[i].source = last => (es[i].target = last \/ vis[es[i].target] = "Processed")

\* lines 109-121, for one neighbour `node` of `last`; st = [stack, visited, cycles].
ExpandNeighbor(es, last, node, st) ==
    IF node = last THEN st
    ELSE IF st.visited[node] = "OnStack"
    THEN [st EXCEPT !.cycles = PushCycle(@, record_cycle(es, st.stack, node))]
    ELSE IF st.visited[node] = "Unvisited"
    THEN [st EXCEPT !.stack = Append(@, node),
                    !.visited = [@ EXCEPT ![node] = "OnStack"]]
    ELSE st

RECURSIVE ExpandNeighbors(_, _, _, _)
\* lines 108-122, over the remaining neighbours `ns` of `last`.
ExpandNeighbors(es, last, ns, st) ==
    IF ns = <<>> THEN st
    ELSE CHOOSE r \in {ExpandNeighbors(es, last, Tail(ns), next) :
                          next \in {ExpandNeighbor(es, last, Head(ns), st)}} : TRUE

(***************************************************************************)
(* The initial states: remove_cycles is handed any Graph of up to MaxNodes *)
(* nodes and MaxEdges edges (add_edge allows loops and parallel edges),    *)
(* with the kinds the builder gives an edge: Plain or Array. Boxed edges   *)
(* are there in the second call.                                           *)
(***************************************************************************)
TestNode(i) == [id |-> i, kind |-> "DataType"]

BuilderKinds == {"Plain", "Array"}

\* The graphs of n nodes and at most m edges, of the given kinds.
GraphsOver(n, m, kinds) ==
    {[nodes |-> [i \in 1..n |-> TestNode(i)], edges |-> es] :
        es \in UNION {[1..k -> [source : 1..n, target : 1..n, kind : kinds]] : k \in 0..m}}

Unvisited(g) == [i \in 1..NodeCount(g) |-> "Unvisited"]

CycleStart(graphs) ==
    /\ graph \in graphs
    /\ graph0 = graph
    /\ graph1 = graph
    /\ round = 1
    /\ pc = "loop"
    /\ iterations = IterationCap
    /\ plain = <<>>
    /\ visited = Unvisited(graph)
    /\ cycles = <<>>
    /\ cursor = 1
    /\ stack = <<>>

(***************************************************************************)
(* remove_cycles, top of `loop` (lines 256-264): project and start         *)
(* find_cycles (lines 128-129).                                            *)
(***************************************************************************)
Project ==
    /\ pc = "loop"
    /\ plain' = PlainProjection(graph)
    /\ visited' = Unvisited(graph)
    /\ cycles' = <<>>
    /\ cursor' = 1
    /\ stack' = <<>>
    /\ pc' = "find"
    /\ UNCHANGED <<graph, iterations, round, graph0, graph1>>
    /\ UNCHANGED <<buildVars, unifyVars, nameVars>>

(***************************************************************************)
(* find_cycles, one turn of `for node in graph.node_indices()`             *)
(* (lines 131-143).                                                        *)
(***************************************************************************)
FindCycles ==
    /\ pc = "find"
    /\ IF cursor > NodeCount(graph)
       THEN /\ pc' = "select"
            /\ UNCHANGED <<visited, stack, cursor>>
       ELSE IF visited[cursor] = "Unvisited"
       THEN /\ stack' = <<cursor>>
            /\ visited' = [visited EXCEPT ![cursor] = "OnStack"]
            /\ pc' = "dfs"
            /\ UNCHANGED cursor
       ELSE /\ cursor' = cursor + 1
            /\ UNCHANGED <<visited, stack, pc>>
    /\ UNCHANGED <<graph, iterations, plain, cycles, round, graph0, graph1>>
    /\ UNCHANGED <<buildVars, unifyVars, nameVars>>

(***************************************************************************)
(* process_dfs_tree, head of the while body (lines 88-106).                *)
(***************************************************************************)
DfsHead ==
    /\ pc = "dfs"
    /\ IF stack = <<>>
       THEN \* the while ends, process_dfs_tree returns into the `for`
            /\ pc' = "find"
            /\ cursor' = cursor + 1
            /\ UNCHANGED <<visited, cycles, stack>>
       ELSE LET es   == plain
                last == Top(stack)
                loop == SelfLoopEdge(es, last)
            IN  /\ cycles' = IF loop # 0 THEN PushCycle(cycles, <<loop>>) ELSE cycles
                /\ IF CanPop(es, visited, last)
                   THEN /\ stack' = SubSeq(stack, 1, Len(stack) - 1)
                        /\ visited' = [visited EXCEPT ![last] = "Processed"]
                        /\ pc' = "dfs"
                   ELSE /\ pc' = "expand"
                        /\ UNCHANGED <<stack, visited>>
                /\ UNCHANGED cursor
    /\ UNCHANGED <<graph, iterations, plain, round, graph0, graph1>>
    /\ UNCHANGED <<buildVars, unifyVars, nameVars>>

(***************************************************************************)
(* process_dfs_tree, the `for` over the neighbours (lines 108-122).        *)
(***************************************************************************)
DfsExpand ==
    /\ pc = "expand"
    /\ \E st \in {ExpandNeighbors(plain, Top(stack), NeighborsDirected(plain, Top(stack)),
                       [stack |-> stack, visited |-> visited, cycles |-> cycles])} :
           /\ stack' = st.stack
           /\ visited' = st.visited
           /\ cycles' = st.cycles
    /\ pc' = "dfs"
    /\ UNCHANGED <<graph, iterations, plain, cursor, round, graph0, graph1>>
    /\ UNCHANGED <<buildVars, unifyVars, nameVars>>

(***************************************************************************)
(* remove_cycles after find_cycles (lines 266-306).                        *)
(***************************************************************************)
\* lines 270-276: occurrences[edge] over all cycles.
Occurrences(cs, e) ==
    LET RECURSIVE Count(_)
        Count(k) == IF k = 0 THEN 0
                    ELSE Count(k - 1) + Cardinality({j \in 1..Len(cs[k]) : cs[k][j] = e})
    IN  Count(Len(cs))

\* edges[0] read as the edge of index 0 instead of the first after the sort
FirstSorted_EdgeZero(es, cs) == IF Len(es) > 0 /\ Occurrences(cs, 1) > 0 THEN 1 ELSE 0

\* lines 278-293: the edges with a positive count, sorted by count and then
\* by index; edges[0] is the one the sort puts first.
FirstSorted(es, cs) ==
    LET cand == {e \in 1..Len(es) : Occurrences(cs, e) > 0}
    IN  IF cand = {} THEN 0
        ELSE CHOOSE e \in cand : \A f \in cand :
                \/ Occurrences(cs, e) < Occurrences(cs, f)
                \/ (Occurrences(cs, e) = Occurrences(cs, f) /\ e <= f)

\* Mutant: the index the edge has in the Plain projection is used on the
\* original graph.
BoxEdge_InProjection(g, chosen) ==
    [g EXCEPT !.edges[Cardinality({i \in 1..chosen : g.edges[i].kind = "Plain"})].kind = "Boxed"]

\* lines 295-299
BoxEdge(g, chosen) == [g EXCEPT !.edges[chosen].kind = "Boxed"]

\* Mutant: remove_cycles returns after its first reclassification.
AfterBoxing_SinglePass(left) == "done"

\* lines 301-306: where remove_cycles goes after boxing an edge.
AfterBoxing(left) == IF left = 0 THEN "panic" ELSE "loop"

Select ==
    /\ pc = "select"
    /\ LET es    == plain
           first == FirstSorted(es, cycles)
       IN  IF cycles = <<>> \/ first = 0
           THEN /\ pc' = "done"
                /\ UNCHANGED <<graph, iterations>>
           ELSE /\ graph' = BoxEdge(graph, es[first].weight)
                /\ iterations' = iterations - 1
                /\ pc' = AfterBoxing(iterations')
    /\ UNCHANGED <<plain, visited, cycles, cursor, stack, round, graph0, graph1>>
    /\ UNCHANGED <<buildVars, unifyVars, nameVars>>

(***************************************************************************)
(* The caller runs remove_cycles once more on the graph it got back.       *)
(***************************************************************************)
Rerun ==
    /\ pc = "done"
    /\ round = 1
    /\ round' = 2
    /\ graph1' = graph
    /\ pc' = "loop"
    /\ iterations' = IterationCap
    /\ UNCHANGED <<graph, plain, visited, cycles, cursor, stack, graph0>>
    /\ UNCHANGED <<buildVars, unifyVars, nameVars>>

CycleNext == Project \/ FindCycles \/ DfsHead \/ DfsExpand \/ Select \/ Rerun

CycleInit == CycleStart(UNION {GraphsOver(n, MaxEdges, BuilderKinds) : n \in 1..MaxNodes})

\* Under Spec and FairSpec no builder runs.
\* The ids of the schemas a store of UnifySpec is about, and LINK_REF
\* (unify.rs 17-24).
UIds == {"a", "b", "c"}
LINK_REF == "link"
AllIds == UIds \cup {LINK_REF}

\* The entry of an id the cache (or the fetch callback) has no schema for.
NoSchema == [present |-> FALSE, kind |-> "", props |-> {}, parents |-> <<>>]
EmptyCache == [i \in AllIds |-> NoSchema]

\* process and the NameResolver are not run.
NoName ==
    /\ schemas = {}
    /\ handled = <<>>
    /\ output = <<>>
    /\ references = <<>>
    /\ generated = <<>>
    /\ batch = <<>>
    /\ located = <<>>
    /\ npc = "off"

\* The unification is not run.
NoUnify ==
    /\ cache = EmptyCache
    /\ cache0 = EmptyCache
    /\ remote = EmptyCache
    /\ hasFetch = FALSE
    /\ missing = {}
    /\ ustack = <<>>
    /\ unodes = {}
    /\ uedges = {}
    /\ errors = <<>>
    /\ turns = 0
    /\ topo = <<>>
    /\ upos = 0
    /\ upc = "off"
    /\ returned = [status |-> "off", map |-> EmptyCache]
    /\ facts = {}
    /\ calls = [i \in AllIds |-> 0]

NoBuild ==
    /\ types = <<>>
    /\ types0 = <<>>
    /\ tcursor = 0
    /\ temp = [nodes |-> <<>>, edges |-> <<>>]
    /\ lookup = <<>>
    /\ boxed1 = {}

Init == CycleInit /\ NoBuild /\ NoUnify /\ NoName
Next == CycleNext
Spec == Init /\ [][Next]_vars
\* Termination is checked on the graphs whose edges are all Plain, as in the
\* unit tests of remove_cycles, with up to as many edges as nodes (a ring).
\* The code is sequential: whenever it has a next step it takes it.
FairInit == CycleStart(UNION {GraphsOver(n, MaxNodes, {"Plain"}) : n \in 1..MaxNodes}) /\ NoBuild
    /\ NoUnify /\ NoName
FairSpec == FairInit /\ [][Next]_vars /\ WF_vars(Next)

\* A find_cycles that returns never filled the `cycles` the model keeps.
CyclesFit == pc = "select" => Len(cycles) < MaxCycles

(***************************************************************************)
(* Properties of the cycle resolution.                                     *)
(***************************************************************************)
PlainSucc(g, S) ==
    {g.edges[i].target : i \in {j \in 1..Len(g.edges) :
        g.edges[j].kind = "Plain" /\ g.edges[j].source \in S}}

RECURSIVE PlainReach(_, _, _)
\* The nodes reached from S by 1..k Plain edges.
PlainReach(g, S, k) ==
    IF k = 0 THEN {}
    ELSE LET T == PlainSucc(g, S) IN T \cup PlainReach(g, T, k - 1)

HasPlainCycle(g) ==
    \E n \in 1..NodeCount(g) : n \in PlainReach(g, {n}, NodeCount(g))

Returned == pc = "done"

\* C1: when remove_cycles has returned, the Plain edges of the graph form
\* no directed cycle (and no Plain self-loop is left).
C1_PlainAcyclic == Returned => ~HasPlainCycle(graph)

\* C1 witness: the first call returned on a graph that had a Plain cycle.
C1_Witness == Returned /\ round = 1 /\ HasPlainCycle(graph0) /\ ~HasPlainCycle(graph)

\* C2: remove_cycles terminates on every graph: each call returns.
C2_Terminates == <>Returned

\* A graph that is one directed cycle of Plain edges over all of its k >= 2
\* nodes.
IsPlainRing(g) ==
    /\ NodeCount(g) >= 2
    /\ Len(g.edges) = NodeCount(g)
    /\ \A i \in 1..Len(g.edges) : g.edges[i].kind = "Plain"
    /\ \A n \in 1..NodeCount(g) :
        /\ Cardinality({i \in 1..Len(g.edges) : g.edges[i].source = n}) = 1
        /\ PlainReach(g, {n}, NodeCount(g)) = 1..NodeCount(g)

FirstBoxedOnly(g) ==
    \A i \in 1..Len(g.edges) : g.edges[i].kind = IF i = 1 THEN "Boxed" ELSE "Plain"

\* C3: on a graph that is one Plain cycle over two or more nodes,
\* remove_cycles returns with exactly the first inserted edge Boxed and
\* every other edge Plain.
C3_RingBoxesFirstEdge ==
    (round = 1 /\ IsPlainRing(graph0)) ~> (Returned /\ FirstBoxedOnly(graph))

IsPlainSelfLoop(e) == e.kind = "Plain" /\ e.source = e.target

SingleSelfLoop(g) ==
    NodeCount(g) = 1 /\ Len(g.edges) = 1 /\ IsPlainSelfLoop(g.edges[1])

\* C4: when remove_cycles has returned, every edge that was a Plain
\* self-loop is Boxed; on the graph of one node with one Plain self-loop
\* that took one reclassification.
C4_SelfLoopsBoxed ==
    Returned =>
        /\ \A i \in 1..Len(graph0.edges) :
              IsPlainSelfLoop(graph0.edges[i]) => graph.edges[i].kind = "Boxed"
        /\ (round = 1 /\ SingleSelfLoop(graph0)) => iterations = IterationCap - 1

\* C4 witness: the call returned on the one-node graph with its self-loop Boxed.
C4_Witness ==
    Returned /\ round = 1 /\ SingleSelfLoop(graph0) /\ graph.edges[1].kind = "Boxed"

\* C5: a second call of remove_cycles, on the graph the first call
\* returned, changes no edge kind.
C5_Idempotent == round = 2 => graph = graph1

\* C5 witness: the second call returned, after a first call that boxed an edge.
C5_Witness == Returned /\ round = 2 /\ graph1 # graph0 /\ graph = graph1

(***************************************************************************)
(* The schemas handed to DependencyAnalyzer::new.                          *)
(*                                                                         *)
(* A store holds a schema for some of SchemaIds; a reference to an id the  *)
(* store has no schema for is dangling. A HashMap (the store, the          *)
(* properties of an entity type or of a property type object) is a         *)
(* sequence here: the order in which this run iterates it.                 *)
(***************************************************************************)
SchemaIds == {"a", "b"}

\* ValueOrArray<PropertyTypeReference>: Value(url) or Array(items: url)
ValueRefs == [url : SchemaIds, array : BOOLEAN]

\* The values() of a properties map of 1..n entries; its keys are the base
\* urls of the targets, so no two entries have the same target.
PropertySeqs(n) ==
    {ps \in UNION {[1..k -> ValueRefs] : k \in 1..n} :
        \A i, j \in 1..Len(ps) : i # j => ps[i].url # ps[j].url}

DataTypeReference(u) == [tag |-> "DataTypeReference", url |-> u]
PropertyTypeObject(ps) == [tag |-> "PropertyTypeObject", properties |-> ps]
ArrayOfPropertyValues(vs) == [tag |-> "ArrayOfPropertyValues", items |-> vs]

RECURSIVE LinkCount(_)
\* How many references a PropertyValues holds.
LinkCount(value) ==
    IF value.tag = "DataTypeReference" THEN 1
    ELSE IF value.tag = "PropertyTypeObject" THEN Len(value.properties)
    ELSE LET RECURSIVE Sum(_)
             Sum(k) == IF k = 0 THEN 0 ELSE Sum(k - 1) + LinkCount(value.items[k])
         IN  Sum(Len(value.items))

RECURSIVE PropertyValuesSet(_, _)
RECURSIVE OneOfs(_, _)
\* The PropertyValues with arrays nested at most d deep and 1..n references.
PropertyValuesSet(d, n) ==
    IF n < 1 THEN {}
    ELSE {DataTypeReference(u) : u \in SchemaIds}
         \cup {PropertyTypeObject(ps) : ps \in PropertySeqs(n)}
         \cup (IF d = 0 THEN {} ELSE {ArrayOfPropertyValues(vs) : vs \in OneOfs(d - 1, n)})

\* The non-empty one_of lists over them with at most n references in all.
OneOfs(d, n) ==
    UNION {{<<v>>} \cup {<<v>> \o rest : rest \in OneOfs(d, n - LinkCount(v))} :
              v \in PropertyValuesSet(d, n)}

DataTypes(i) == {[id |-> i, variant |-> "Data"]}
PropertyTypes(i, n) ==
    {[id |-> i, variant |-> "Property", one_of |-> vs] : vs \in OneOfs(MaxDepth, n)}
\* inherits_from().all_of() of an entity type: no parent or one.
ParentRefs == {<<>>} \cup {<<u>> : u \in SchemaIds}
EntityTypesOver(i, n, parents) ==
    {[id |-> i, variant |-> "Entity", properties |-> ps, inherits_from |-> ih] :
        ps \in {<<>>} \cup PropertySeqs(n), ih \in parents}
\* The entity types that inherit from nothing.
EntityTypes(i, n) == EntityTypesOver(i, n, {<<>>})

AnyTypes(i, n) == DataTypes(i) \cup PropertyTypes(i, n) \cup EntityTypes(i, n)

(***************************************************************************)
(* outgoing: the add_link calls a schema makes, in order, as               *)
(* [url, kind] (lines 171-248).                                            *)
(***************************************************************************)
\* Mutant: the parents get a Plain edge as well.
outgoing_entity_type_WithParents(ty) ==
    [i \in 1..Len(ty.properties) |->
        [url |-> ty.properties[i].url,
         kind |-> IF ty.properties[i].array THEN "Array" ELSE "Plain"]]
    \o [i \in 1..Len(ty.inherits_from) |-> [url |-> ty.inherits_from[i], kind |-> "Plain"]]

outgoing_entity_type(ty) ==
    [i \in 1..Len(ty.properties) |->
        [url |-> ty.properties[i].url,
         kind |-> IF ty.properties[i].array THEN "Array" ELSE "Plain"]]

RECURSIVE outgoing_property_value(_, _)
\* `kind` is "None" or an EdgeKind (Option<EdgeKind>).
outgoing_property_value(value, kind) ==
    LET k == IF kind = "None" THEN "Plain" ELSE kind
    IN  IF value.tag = "DataTypeReference"
        THEN <<[url |-> value.url, kind |-> k]>>
        ELSE IF value.tag = "PropertyTypeObject"
        THEN [i \in 1..Len(value.properties) |->
                 [url |-> value.properties[i].url,
                  kind |-> IF value.properties[i].array THEN "Array" ELSE k]]
        ELSE LET RECURSIVE Items(_)
                 Items(j) ==
                     IF j > Len(value.items) THEN <<>>
                     ELSE outgoing_property_value(value.items[j], "Array") \o Items(j + 1)
             IN  Items(1)

outgoing_property_type(ty) ==
    LET RECURSIVE Values(_)
        Values(j) ==
            IF j > Len(ty.one_of) THEN <<>>
            ELSE outgoing_property_value(ty.one_of[j], "None") \o Values(j + 1)
    IN  Values(1)

outgoing(ty) ==
    IF ty.variant = "Data" THEN <<>>
    ELSE IF ty.variant = "Property" THEN outgoing_property_type(ty)
    ELSE outgoing_entity_type(ty)

RECURSIVE TotalLinks(_)
TotalLinks(ts) == IF ts = <<>> THEN 0 ELSE Len(outgoing(Head(ts))) + TotalLinks(Tail(ts))

(***************************************************************************)
(* DependencyAnalyzer::new (lines 310-364).                                *)
(***************************************************************************)
NoNode == [some |-> FALSE, id |-> "", kind |-> ""]
SomeNode(ty) ==
    [some |-> TRUE, id |-> ty.id,
     kind |-> IF ty.variant = "Data" THEN "DataType"
              ELSE IF ty.variant = "Property" THEN "PropertyType" ELSE "EntityType"]

\* An id that no store has a schema for: a reference to it is dangling in
\* every store.
DanglingId == "c"

\* Lookup::new(); 0 stands for no entry.
EmptyLookup == [u \in SchemaIds \cup {DanglingId} |-> 0]

\* Mutant: the edge is added whether or not there is one already.
update_edge_AlwaysAdds(g, a, b, kind) ==
    [g EXCEPT !.edges = Append(@, [source |-> a, target |-> b, kind |-> kind])]

\* graph.update_edge(a, b, weight): the edge a -> b gets the weight if
\* there is one, and is added otherwise.
update_edge(g, a, b, kind) ==
    LET e == FindEdge(g.edges, a, b)
    IN  IF e # 0
        THEN [g EXCEPT !.edges[e].kind = kind]
        ELSE [g EXCEPT !.edges = Append(@, [source |-> a, target |-> b, kind |-> kind])]

\* lines 152-169; st = [graph, lookup]
add_link(st, source, target, kind) ==
    IF st.lookup[target] # 0
    THEN [st EXCEPT !.graph = update_edge(@, source, st.lookup[target], kind)]
    ELSE LET index == Len(st.graph.nodes) + 1
             added == [st.graph EXCEPT !.nodes = Append(@, NoNode)]
         IN  [graph  |-> update_edge(added, source, index, kind),
              lookup |-> [st.lookup EXCEPT ![target] = index]]

RECURSIVE AddLinks(_, _, _)
\* the add_link calls of one schema, in order
AddLinks(st, source, links) ==
    IF links = <<>> THEN st
    ELSE CHOOSE r \in {AddLinks(next, source, Tail(links)) :
                          next \in {add_link(st, source, Head(links).url, Head(links).kind)}} : TRUE

\* lines 315-342: the node of `ty`, a placeholder an earlier reference
\* made or a new one; st = [graph, lookup]
NodeOf(st, ty) ==
    IF st.lookup[ty.id] # 0
    THEN [st EXCEPT !.graph.nodes[st.lookup[ty.id]] = SomeNode(ty)]
    ELSE [graph  |-> [st.graph EXCEPT !.nodes = Append(@, SomeNode(ty))],
          lookup |-> [st.lookup EXCEPT ![ty.id] = Len(st.graph.nodes) + 1]]

\* Mutant: the nodes that are None are kept, with their edges.
FilterNodes_KeepsNone(g) ==
    [nodes |-> [i \in 1..Len(g.nodes) |-> [id |-> g.nodes[i].id, kind |-> g.nodes[i].kind]],
     edges |-> g.edges]

\* lines 347-359: the nodes that are None are dropped with their edges; the
\* nodes and edges kept are re-added in index order.
FilterNodes(g) ==
    LET keep  == SortedSeq({i \in 1..Len(g.nodes) : g.nodes[i].some})
        newIx == [i \in 1..Len(g.nodes) |->
                     IF g.nodes[i].some
                     THEN Cardinality({j \in 1..i : g.nodes[j].some}) ELSE 0]
        kept  == SortedSeq({e \in 1..Len(g.edges) :
                     g.nodes[g.edges[e].source].some /\ g.nodes[g.edges[e].target].some})
    IN  [nodes |-> [i \in 1..Len(keep) |->
                       [id |-> g.nodes[keep[i]].id, kind |-> g.nodes[keep[i]].kind]],
         edges |-> [i \in 1..Len(kept) |->
                       [source |-> newIx[g.edges[kept[i]].source],
                        target |-> newIx[g.edges[kept[i]].target],
                        kind   |-> g.edges[kept[i]].kind]]]

\* The stores with at most n references in all: a schema for one or for each
\* of SchemaIds, in any order.
Stores(n) ==
    {<<t>> : t \in UNION {AnyTypes(i, n) : i \in SchemaIds}}
    \cup UNION {UNION {{<<t, u>>, <<u, t>>} : u \in AnyTypes("b", n - Len(outgoing(t)))} :
                  t \in AnyTypes("a", n)}

\* The stores of data types and of entity types that may inherit, with at
\* most n references in all.
InheritTypes(i, n) == DataTypes(i) \cup EntityTypesOver(i, n, ParentRefs)
InheritStores(n) ==
    {<<t>> : t \in UNION {InheritTypes(i, n) : i \in SchemaIds}}
    \cup UNION {UNION {{<<t, u>>, <<u, t>>} : u \in InheritTypes("b", n - Len(outgoing(t)))} :
                  t \in InheritTypes("a", n)}

EmptyGraph == [nodes |-> <<>>, edges |-> <<>>]

\* The first statements of DependencyAnalyzer::new (lines 311-312).
BuildStart ==
    /\ types0 = types
    /\ tcursor = 1
    /\ temp = EmptyGraph
    /\ lookup = EmptyLookup
    /\ boxed1 = {}
    /\ graph = EmptyGraph
    /\ graph0 = EmptyGraph
    /\ graph1 = EmptyGraph
    /\ round = 1
    /\ pc = "build"
    /\ NoName
    /\ iterations = IterationCap
    /\ plain = <<>>
    /\ visited = <<>>
    /\ cycles = <<>>
    /\ cursor = 1
    /\ stack = <<>>
    /\ NoUnify

BuildInit == types \in Stores(MaxLinks) /\ BuildStart
InheritInit == types \in InheritStores(MaxLinks) /\ BuildStart

\* One turn of `for ty in types` (lines 314-345).
BuildType ==
    /\ pc = "build"
    /\ tcursor <= Len(types)
    /\ \E st \in {NodeOf([graph |-> temp, lookup |-> lookup], types[tcursor])} :
       \E done \in {AddLinks(st, st.lookup[types[tcursor].id], outgoing(types[tcursor]))} :
           /\ temp' = done.graph
           /\ lookup' = done.lookup
    /\ tcursor' = tcursor + 1
    /\ UNCHANGED <<types, types0, boxed1, cycleVars, unifyVars, nameVars>>

\* After the loop: filter_map, then remove_cycles is called (lines 347-361).
Filter ==
    /\ pc = "build"
    /\ tcursor > Len(types)
    /\ graph' = FilterNodes(temp)
    /\ graph0' = graph'
    /\ graph1' = graph'
    /\ pc' = "loop"
    /\ iterations' = IterationCap
    /\ UNCHANGED <<plain, visited, cycles, cursor, stack, round, buildVars, unifyVars, nameVars>>

(***************************************************************************)
(* A second run of the program over the same store. process (lib.rs        *)
(* 162-170) hands the builder the values of a HashMap, whose iteration     *)
(* order differs from run to run, as does that of the properties maps.     *)
(***************************************************************************)
SeqPermutations(sq) ==
    {[i \in 1..Len(sq) |-> sq[f[i]]] :
        f \in {g \in [1..Len(sq) -> 1..Len(sq)] : \A i, j \in 1..Len(sq) : i # j => g[i] # g[j]}}

RECURSIVE ValueOrders(_)
RECURSIVE OneOfOrders(_)
\* The same PropertyValues with its properties maps iterated in any order.
ValueOrders(value) ==
    IF value.tag = "DataTypeReference" THEN {value}
    ELSE IF value.tag = "PropertyTypeObject"
    THEN {PropertyTypeObject(ps) : ps \in SeqPermutations(value.properties)}
    ELSE {ArrayOfPropertyValues(vs) : vs \in OneOfOrders(value.items)}

\* one_of is a Vec: its order is that of the schema.
OneOfOrders(vs) ==
    IF vs = <<>> THEN {<<>>}
    ELSE {<<v>> \o rest : v \in ValueOrders(Head(vs)), rest \in OneOfOrders(Tail(vs))}

TypeOrders(ty) ==
    IF ty.variant = "Data" THEN {ty}
    ELSE IF ty.variant = "Property"
    THEN {[ty EXCEPT !.one_of = vs] : vs \in OneOfOrders(ty.one_of)}
    ELSE {[ty EXCEPT !.properties = ps] : ps \in SeqPermutations(ty.properties)}

StoreOrders(ts) ==
    UNION {{qs \in [1..Len(ts) -> UNION {TypeOrders(ps[i]) : i \in 1..Len(ts)}] :
               \A i \in 1..Len(ts) : qs[i] \in TypeOrders(ps[i])} :
           ps \in SeqPermutations(ts)}

\* The references a run left Boxed, by the ids of their ends.
BoxedRefs(g) ==
    {<<g.nodes[g.edges[i].source].id, g.nodes[g.edges[i].target].id>> :
        i \in {j \in 1..Len(g.edges) : g.edges[j].kind = "Boxed"}}

Rebuild ==
    /\ pc = "done"
    /\ round = 1
    /\ round' = 2
    /\ boxed1' = BoxedRefs(graph)
    /\ types' \in StoreOrders(types)
    /\ tcursor' = 1
    /\ temp' = EmptyGraph
    /\ lookup' = EmptyLookup
    /\ pc' = "build"
    /\ UNCHANGED <<graph, iterations, plain, visited, cycles, cursor, stack, graph0, graph1, types0>>
    /\ UNCHANGED <<unifyVars, nameVars>>

BuildNext ==
    BuildType \/ Filter \/ Project \/ FindCycles \/ DfsHead \/ DfsExpand \/ Select \/ Rebuild

BuildSpec == BuildInit /\ [][BuildNext]_vars
InheritSpec == InheritInit /\ [][BuildNext]_vars

Keys == {"p", "q"}

DataSchema == [present |-> TRUE, kind |-> "Data", props |-> {}, parents |-> <<>>]
EntitySchema(id, keys, parents) ==
    [present |-> TRUE, kind |-> "Entity",
     props |-> {[key |-> k, value |-> id] : k \in keys}, parents |-> parents]

KeysOf(schema) == {pr.key : pr \in schema.props}

\* The parent lists of at most n references.
ParentLists(n) == UNION {[1..k -> AllIds] : k \in 0..n}

\* The entity types of an id that declare at most np properties and ni
\* parents.
EntitySchemas(id, np, ni) ==
    {EntitySchema(id, ks, ps) :
        ks \in {k \in SUBSET Keys : Cardinality(k) <= np}, ps \in ParentLists(ni)}

\* What a store says of one id: no schema, a schema of the cache, or an
\* entity type the fetch callback answers with.
Entries(id, np, ni) ==
    {[place |-> "none", schema |-> NoSchema], [place |-> "cache", schema |-> DataSchema]}
    \cup {[place |-> pl, schema |-> sc] :
             pl \in {"cache", "remote"}, sc \in EntitySchemas(id, np, ni)}

\* What a store says of LINK_REF: no schema, or the Link entity type in the
\* cache (stack() never asks the callback for it).
LinkEntries(np, ni) ==
    {[place |-> "none", schema |-> NoSchema]}
    \cup {[place |-> "cache", schema |-> sc] : sc \in EntitySchemas(LINK_REF, np, ni)}

PropsLeft(np, entry) == np - Cardinality(entry.schema.props)
ParentsLeft(ni, entry) == ni - Len(entry.schema.parents)

\* The ids are interchangeable and a schema is only ever fetched as a
\* parent: the stores are taken with the ids that have a schema first, and
\* with the callback (if any) holding parents only.
Canonical(ea, eb, ec, el) ==
    /\ eb.place # "none" => ea.place # "none"
    /\ ec.place # "none" => eb.place # "none"
    /\ LET referred == UNION {Range(en.schema.parents) : en \in {ea, eb, ec, el}}
       IN  /\ ea.place = "remote" => "a" \in referred
           /\ eb.place = "remote" => "b" \in referred
           /\ ec.place = "remote" => "c" \in referred

Place(entry, place) == IF entry.place = place THEN entry.schema ELSE NoSchema

\* What has not happened in a state is "none".
Running == [status |-> "none", map |-> EmptyCache]

NoEntry == [place |-> "none", schema |-> NoSchema]

\* UnificationAnalyzer::new over the store of four entries (lines 44-57).
UnifyStart(ea, eb, ec, el) ==
    /\ cache = [i \in AllIds |->
                   IF i = "a" THEN Place(ea, "cache")
                   ELSE IF i = "b" THEN Place(eb, "cache")
                   ELSE IF i = "c" THEN Place(ec, "cache")
                   ELSE Place(el, "cache")]
    /\ remote = [i \in AllIds |->
                   IF i = "a" THEN Place(ea, "remote")
                   ELSE IF i = "b" THEN Place(eb, "remote")
                   ELSE IF i = "c" THEN Place(ec, "remote") ELSE NoSchema]
    /\ cache0 = cache
    /\ missing = {}
    /\ ustack = <<>>
    /\ unodes = {}
    /\ uedges = {}
    /\ errors = <<>>
    /\ turns = 0
    /\ topo = <<>>
    /\ upos = 0
    /\ upc = "run"
    /\ returned = Running
    /\ facts = {}
    /\ calls = [i \in AllIds |-> 0]
    /\ NoBuild
    /\ NoName
    /\ graph = EmptyGraph
    /\ graph0 = EmptyGraph
    /\ graph1 = EmptyGraph
    /\ round = 1
    /\ pc = "off"
    /\ iterations = IterationCap
    /\ plain = <<>>
    /\ visited = <<>>
    /\ cycles = <<>>
    /\ cursor = 1
    /\ stack = <<>>

\* The stores over UIds, without a schema for LINK_REF.
UnifyStores ==
    \E ea \in Entries("a", MaxProps, MaxInherits) :
    \E eb \in Entries("b", PropsLeft(MaxProps, ea), ParentsLeft(MaxInherits, ea)) :
    \E ec \in Entries("c", PropsLeft(PropsLeft(MaxProps, ea), eb),
                           ParentsLeft(ParentsLeft(MaxInherits, ea), eb)) :
        /\ Canonical(ea, eb, ec, NoEntry)
        /\ UnifyStart(ea, eb, ec, NoEntry)

\* UnificationAnalyzer::new, and with_fetch if the callback has a schema to
\* answer with (lines 44-64).
UnifyInit ==
    /\ UnifyStores
    /\ hasFetch = (\E i \in AllIds : remote[i].present)

(***************************************************************************)
(* ErrorAccumulator (crate::error): push keeps the error of an Err,        *)
(* into_result is Ok when nothing was kept and the error kept otherwise.   *)
(***************************************************************************)
AccPush(errs, e) == Append(errs, e)
IntoResult(errs) == IF errs = <<>> THEN "Ok" ELSE errs[1]

\* Mutant: the check of `missing` (lines 68-70) left out.
fetch_NoMemo(st, id) ==
    IF st.cache[id].present THEN [st |-> st, res |-> "Hit"]
    ELSE IF ~hasFetch
    THEN [st |-> [st EXCEPT !.missing = @ \cup {id}], res |-> "Err"]
    ELSE IF ~remote[id].present
    THEN [st |-> [st EXCEPT !.missing = @ \cup {id}, !.calls[id] = @ + 1], res |-> "Err"]
    ELSE [st |-> [st EXCEPT !.cache[id] = remote[id], !.calls[id] = @ + 1], res |-> "Miss"]

\* lines 66-90; st has the fields cache, missing and calls (among others), the
\* answer is [st, res], res one of "Hit", "Miss", "Err".
fetch(st, id) ==
    IF id \in st.missing THEN [st |-> st, res |-> "Err"]
    ELSE IF st.cache[id].present THEN [st |-> st, res |-> "Hit"]
    ELSE IF ~hasFetch
    THEN [st |-> [st EXCEPT !.missing = @ \cup {id}], res |-> "Err"]
    ELSE IF ~remote[id].present
    THEN [st |-> [st EXCEPT !.missing = @ \cup {id}, !.calls[id] = @ + 1], res |-> "Err"]
    ELSE [st |-> [st EXCEPT !.cache[id] = remote[id], !.calls[id] = @ + 1], res |-> "Miss"]

\* the IncompleteGraph of a failed lookup is not pushed
StackParent_ErrorLost(st, url, parent) ==
    IF parent = LINK_REF THEN st
    ELSE LET got == fetch(st, parent)
         IN  IF got.res = "Err" THEN got.st
             ELSE LET pushed == IF got.res = "Miss"
                                THEN [got.st EXCEPT !.stack = Append(@, parent)]
                                ELSE got.st
                  IN  [pushed EXCEPT !.nodes = @ \cup {parent},
                                     !.edges = @ \cup {<<url, parent>>}]

\* the edge to the parent is added in the Miss arm only
StackParent_EdgeOnMiss(st, url, parent) ==
    IF parent = LINK_REF THEN st
    ELSE LET got == fetch(st, parent)
         IN  IF got.res = "Err"
             THEN [got.st EXCEPT !.errors = AccPush(@, "IncompleteGraph")]
             ELSE IF got.res = "Miss"
             THEN [got.st EXCEPT !.stack = Append(@, parent),
                                 !.nodes = @ \cup {parent},
                                 !.edges = @ \cup {<<url, parent>>}]
             ELSE [got.st EXCEPT !.nodes = @ \cup {parent}]

\* Mutant: only the first failed lookup of a run is pushed.
StackParent_FirstErrorOnly(st, url, parent) ==
    IF parent = LINK_REF THEN st
    ELSE LET got == fetch(st, parent)
         IN  IF got.res = "Err"
             THEN [got.st EXCEPT !.errors = IF @ = <<>> THEN AccPush(@, "IncompleteGraph")
                                            ELSE @]
             ELSE LET pushed == IF got.res = "Miss"
                                THEN [got.st EXCEPT !.stack = Append(@, parent)]
                                ELSE got.st
                  IN  [pushed EXCEPT !.nodes = @ \cup {parent},
                                     !.edges = @ \cup {<<url, parent>>}]

\* lines 200-221, one parent of the entity type `url`; st is
\* [cache, missing, stack, nodes, edges, errors, calls]
StackParent(st, url, parent) ==
    IF parent = LINK_REF THEN st
    ELSE LET got == fetch(st, parent)
         IN  IF got.res = "Err"
             THEN [got.st EXCEPT !.errors = AccPush(@, "IncompleteGraph")]
             ELSE LET pushed == IF got.res = "Miss"
                                THEN [got.st EXCEPT !.stack = Append(@, parent)]
                                ELSE got.st
                  IN  [pushed EXCEPT !.nodes = @ \cup {parent},
                                     !.edges = @ \cup {<<url, parent>>}]

RECURSIVE StackParents(_, _, _)
StackParents(st, url, parents) ==
    IF parents = <<>> THEN st
    ELSE CHOOSE r \in {StackParents(next, url, Tail(parents)) :
                          next \in {StackParent(st, url, Head(parents))}} : TRUE

\* cache.keys(), in the order this run iterates the HashMap (line 185)
KeyOrders(c) ==
    LET keys == {i \in AllIds : c[i].present}
    IN  {f \in [1..Cardinality(keys) -> keys] :
            \A i, j \in 1..Cardinality(keys) : i # j => f[i] # f[j]}

\* run calls stack (line 240), which starts from the keys of the cache
\* (lines 185-190).
UStart ==
    /\ upc = "run"
    /\ ustack' \in KeyOrders(cache)
    /\ unodes' = {}
    /\ uedges' = {}
    /\ errors' = <<>>
    /\ turns' = 0
    /\ upc' = "stack"
    /\ UNCHANGED <<cache, cache0, remote, hasFetch, missing, topo, upos, returned>>
    /\ UNCHANGED <<facts, calls>>
    /\ UNCHANGED <<cycleVars, buildVars, nameVars>>

\* One turn of `while let Some(url) = stack.pop()` (lines 192-223).
UPop ==
    /\ upc = "stack"
    /\ ustack # <<>>
    /\ LET url   == ustack[Len(ustack)]
           rest  == SubSeq(ustack, 1, Len(ustack) - 1)
           entry == cache[url]
       IN  IF entry.kind = "Entity"
           THEN \E st \in {StackParents([cache |-> cache, missing |-> missing,
                                         stack |-> rest, nodes |-> unodes \cup {url},
                                         edges |-> uedges, errors |-> errors,
                                         calls |-> calls],
                                        url, entry.parents)} :
                    /\ cache' = st.cache
                    /\ missing' = st.missing
                    /\ ustack' = st.stack
                    /\ unodes' = st.nodes
                    /\ uedges' = st.edges
                    /\ errors' = st.errors
                    /\ calls' = st.calls
           ELSE /\ ustack' = rest
                /\ UNCHANGED <<cache, missing, unodes, uedges, errors, calls>>
    /\ turns' = turns + 1
    /\ UNCHANGED <<cache0, remote, hasFetch, topo, upos, upc, returned, facts>>
    /\ UNCHANGED <<cycleVars, buildVars, nameVars>>

(***************************************************************************)
(* petgraph::algo::toposort over the graph of stack(): an error if a node  *)
(* reaches itself (a self-loop included), and otherwise an order of all    *)
(* nodes with every edge pointing forward; which one depends on the node   *)
(* indices, and so on the HashMap order: any of them here.                 *)
(***************************************************************************)
RECURSIVE ReachVia(_, _, _)
\* the nodes reached from those of `from` over at most n edges (at least one)
ReachVia(edges, from, n) ==
    LET next == {e[2] : e \in {d \in edges : d[1] \in from}}
    IN  IF n <= 1 THEN next ELSE next \cup ReachVia(edges, next, n - 1)

HasCycle(nodes, edges) ==
    \E i \in nodes : i \in ReachVia(edges, {i}, Cardinality(nodes))

TopoOrders(nodes, edges) ==
    {f \in [1..Cardinality(nodes) -> nodes] :
        /\ \A i, j \in 1..Cardinality(nodes) : i # j => f[i] # f[j]
        /\ \A e \in edges : \E i, j \in 1..Cardinality(nodes) :
               i < j /\ f[i] = e[1] /\ f[j] = e[2]}

\* line 225 then lines 227-228: what stack() returns, but for the order
stack_result(errs, nodes, edges) ==
    IF IntoResult(errs) # "Ok" THEN IntoResult(errs)
    ELSE IF HasCycle(nodes, edges) THEN "UnificationCycle"
    ELSE "Ok"

\* topo is used as toposort gave it: children first
unify_order_Forward(order) == order

\* line 230: topo.reverse()
unify_order(order) == Reverse(order)

\* The end of the loop of stack(), and what run does with its answer
\* (lines 225-235 and 239-240).
UToposort ==
    /\ upc = "stack"
    /\ ustack = <<>>
    /\ IF stack_result(errors, unodes, uedges) # "Ok"
       THEN /\ returned' = [status |-> stack_result(errors, unodes, uedges),
                            map |-> EmptyCache]
            /\ upc' = "done"
            /\ UNCHANGED <<topo, upos, errors>>
       ELSE /\ \E order \in TopoOrders(unodes, uedges) : topo' = unify_order(order)
            /\ upos' = 1
            /\ errors' = <<>>
            /\ upc' = "unify"
            /\ UNCHANGED returned
    /\ UNCHANGED <<cache, cache0, remote, hasFetch, missing, ustack, unodes, uedges, turns>>
    /\ UNCHANGED <<facts, calls>>
    /\ UNCHANGED <<cycleVars, buildVars, nameVars>>

(***************************************************************************)
(* repr::EntityType::merge (crate type_system): the properties of `other`  *)
(* are added to those of `this` under the keys `this` does not have.       *)
(***************************************************************************)
merge(this, other) ==
    [this EXCEPT !.props = this.props \cup
                    {pr \in other.props : pr.key \notin KeysOf(this)}]

\* parent.merge(entity): the parent is taken as the base
merge_parent_Swapped(entity, parent) ==
    [entity EXCEPT !.props = merge(parent, entity).props]

\* line 146: entity.merge(parent)
merge_parent(entity, parent) == merge(entity, parent)

\* lines 152-164: allOf of the serialized entity is set to the parents the
\* entity declared, and the value is read back as an EntityType
ResetAllOf(entity, parents) == [entity EXCEPT !.parents = parents]

RECURSIVE MergeParents(_, _, _)
\* lines 143-147 over the cache c the entity was removed from; acc is
\* [panic, entity]. entity_or_panic panics on a key the cache does not have
\* and on a schema that is no entity type.
MergeParents(acc, c, parents) ==
    IF parents = <<>> \/ acc.panic THEN acc
    ELSE IF ~c[Head(parents)].present \/ c[Head(parents)].kind # "Entity"
    THEN [acc EXCEPT !.panic = TRUE]
    ELSE CHOOSE r \in {MergeParents(next, c, Tail(parents)) :
                          next \in {[acc EXCEPT !.entity =
                                        merge_parent(@, c[Head(parents)])]}} : TRUE

\* lines 128-169; the answer is [status, cache]
unify_entity(c, id) ==
    LET removed == [c EXCEPT ![id] = NoSchema]
        parents == c[id].parents
        merged  == MergeParents([panic |-> FALSE, entity |-> c[id]], removed, parents)
    IN  IF merged.panic THEN [status |-> "panic", cache |-> removed]
        ELSE [status |-> "Ok",
              cache  |-> [removed EXCEPT ![id] = ResetAllOf(merged.entity, parents)]]

\* lines 171-181
unify(c, id) ==
    IF ~c[id].present THEN [status |-> "panic", cache |-> c]
    ELSE IF c[id].kind = "Entity" THEN unify_entity(c, id)
    ELSE [status |-> "Ok", cache |-> c]

\* One turn of `for id in stack` (lines 242-244).
UUnify ==
    /\ upc = "unify"
    /\ upos <= Len(topo)
    /\ \E done \in {unify(cache, topo[upos])} :
           IF done.status = "panic"
           THEN /\ returned' = [status |-> "panic", map |-> EmptyCache]
                /\ upc' = "done"
                /\ UNCHANGED <<cache, upos, errors>>
           ELSE /\ cache' = done.cache
                /\ errors' = IF done.status = "Ok" THEN errors
                             ELSE AccPush(errors, done.status)
                /\ upos' = upos + 1
                /\ UNCHANGED <<returned, upc>>
    /\ UNCHANGED <<cache0, remote, hasFetch, missing, ustack, unodes, uedges, turns, topo>>
    /\ UNCHANGED <<facts, calls>>
    /\ UNCHANGED <<cycleVars, buildVars, nameVars>>

\* lines 246-247
UReturn ==
    /\ upc = "unify"
    /\ upos > Len(topo)
    /\ returned' = [status |-> IntoResult(errors),
                    map |-> IF IntoResult(errors) = "Ok" THEN cache ELSE EmptyCache]
    /\ upc' = "done"
    /\ UNCHANGED <<cache, cache0, remote, hasFetch, missing, ustack, unodes, uedges,
                   errors, turns, topo, upos, facts, calls>>
    /\ UNCHANGED <<cycleVars, buildVars, nameVars>>

UnifyNext == UStart \/ UPop \/ UToposort \/ UUnify \/ UReturn

UnifySpec == UnifyInit /\ [][UnifyNext]_vars

(***************************************************************************)
(* Properties of the unification.                                          *)
(***************************************************************************)
\* The schema of an id as the store or the callback has it.
Origin(i) == IF cache0[i].present THEN cache0[i] ELSE remote[i]

IsEntity(schema) == schema.present /\ schema.kind = "Entity"

Finished == upc = "done"
ReturnedOk == Finished /\ returned.status = "Ok"

\* No unify call was made: the cache holds the schemas as they were given.
NothingMerged == upos = 0 /\ \A i \in AllIds : cache[i].present => cache[i] = Origin(i)

\* C7: an entity type of the result keeps the value it declares for each of
\* its keys, has one value per key, and has a value for every key a parent
\* declares; with a single parent P that has no parents, the result is E's
\* own properties plus those of P under the keys E does not declare.
C7_ClosestWins ==
    ReturnedOk =>
        \A e \in AllIds : IsEntity(returned.map[e]) =>
            /\ Origin(e).props \subseteq returned.map[e].props
            /\ \A x, y \in returned.map[e].props : x.key = y.key => x = y
            /\ \A P \in Range(Origin(e).parents) :
                   KeysOf(Origin(P)) \subseteq KeysOf(returned.map[e])
            /\ \A P \in AllIds :
                   (Origin(e).parents = <<P>> /\ Origin(P).parents = <<>>) =>
                       returned.map[e].props =
                           Origin(e).props \cup
                           {pr \in Origin(P).props : pr.key \notin KeysOf(Origin(e))}

\* C7 witness: E declares p, its parent P declares p and q, and the unified
\* E has its own p and P's q.
C7_Witness ==
    /\ ReturnedOk
    /\ Origin("a").parents = <<"b">>
    /\ KeysOf(Origin("a")) = {"p"}
    /\ KeysOf(Origin("b")) = {"p", "q"}
    /\ returned.map["a"].props =
           {[key |-> "p", value |-> "a"], [key |-> "q", value |-> "b"]}

\* E inherits P1 inherits P2, all three entity types with pairwise disjoint
\* keys, E given in the store.
IsChain(e, p1, p2) ==
    /\ cache0[e].present
    /\ IsEntity(Origin(e)) /\ IsEntity(Origin(p1)) /\ IsEntity(Origin(p2))
    /\ Origin(e).parents = <<p1>>
    /\ Origin(p1).parents = <<p2>>
    /\ Origin(p2).parents = <<>>
    /\ KeysOf(Origin(e)) \cap KeysOf(Origin(p1)) = {}
    /\ KeysOf(Origin(e)) \cap KeysOf(Origin(p2)) = {}
    /\ KeysOf(Origin(p1)) \cap KeysOf(Origin(p2)) = {}

\* C8: for a chain E -> P1 -> P2 with disjoint keys the run returns Ok and
\* the unified E has the properties of all three; for a chain E -> P1 of a
\* run that returns Ok, the unified E has those of both.
C8_Transitive ==
    Finished =>
        /\ \A e, p1, p2 \in UIds :
               IsChain(e, p1, p2) =>
                   /\ returned.status = "Ok"
                   /\ returned.map[e].props =
                          Origin(e).props \cup Origin(p1).props \cup Origin(p2).props
        /\ \A e, p1 \in UIds :
               ( /\ returned.status = "Ok"
                 /\ IsEntity(returned.map[e])
                 /\ Origin(e).parents = <<p1>>
                 /\ Origin(p1).parents = <<>>
                 /\ KeysOf(Origin(e)) \cap KeysOf(Origin(p1)) = {} ) =>
                   returned.map[e].props = Origin(e).props \cup Origin(p1).props

\* C8 witness: a chain whose last entity type declares a property, which
\* the first one has in the result.
C8_Witness ==
    /\ ReturnedOk
    /\ \E e, p1, p2 \in UIds :
           /\ IsChain(e, p1, p2)
           /\ Origin(p2).props # {}
           /\ Origin(p2).props \subseteq returned.map[e].props
           /\ Origin(e).props # {}

\* The parents of an id that have a schema (LINK_REF, which stack() skips,
\* aside).
ParentEdges ==
    {<<i, j>> \in AllIds \X (AllIds \ {LINK_REF}) :
        IsEntity(Origin(i)) /\ Origin(j).present /\ j \in Range(Origin(i).parents)}

\* The inheritsFrom declarations of the schemas the run gets to contain a
\* cycle.
InheritsCycle ==
    \E i \in AllIds :
        /\ cache0[i].present
        /\ \E j \in {i} \cup ReachVia(ParentEdges, {i}, Cardinality(AllIds)) :
               j \in ReachVia(ParentEdges, {j}, Cardinality(AllIds))

RECURSIVE AncestorsOf(_, _)
\* the ids an entity type refers to as parents, directly or not
AncestorsOf(from, n) ==
    LET next == UNION {Range(Origin(i).parents) : i \in from} \ {LINK_REF}
    IN  IF n <= 1 THEN next ELSE next \cup AncestorsOf(next, n - 1)

\* An entity type of the store none of whose ancestors is missing.
Unaffected(e) ==
    /\ IsEntity(cache0[e])
    /\ \A j \in AncestorsOf({e}, Cardinality(AllIds)) : Origin(j).present

LinkInit ==
    /\ \E ea \in Entries("a", MaxProps, MaxInherits) :
       \E eb \in Entries("b", PropsLeft(MaxProps, ea), ParentsLeft(MaxInherits, ea)) :
       \E el \in LinkEntries(PropsLeft(PropsLeft(MaxProps, ea), eb),
                             ParentsLeft(ParentsLeft(MaxInherits, ea), eb)) :
           /\ Canonical(ea, eb, NoEntry, el)
           /\ UnifyStart(ea, eb, NoEntry, el)
    /\ hasFetch = (\E i \in AllIds : remote[i].present)

LinkSpec == LinkInit /\ [][UnifyNext]_vars

\* with_fetch was called: the callback answers with the schemas of remote
\* and with None for every other id.
FetchInit ==
    /\ UnifyStores
    /\ hasFetch = TRUE

FetchSpec == FetchInit /\ [][UnifyNext]_vars

InheritsLink(e) == IsEntity(cache0[e]) /\ LINK_REF \in Range(cache0[e].parents)

\* C11: a run over a store with an entity type that inherits from LINK_REF
\* does not panic, and when it returns Ok the entity type is in facts.links
\* and has no property of the Link entity type merged into it.
C11_LinkRecorded ==
    Finished =>
        \A e \in UIds : InheritsLink(e) =>
            /\ returned.status # "panic"
            /\ returned.status = "Ok" =>
                   /\ e \in facts
                   /\ \A pr \in returned.map[e].props : pr.value # LINK_REF

\* How many parent references to an id the entity types the run handled
\* declare.
RECURSIVE CountIn(_, _)
CountIn(parents, i) ==
    IF parents = <<>> THEN 0
    ELSE (IF Head(parents) = i THEN 1 ELSE 0) + CountIn(Tail(parents), i)

RECURSIVE ReferencesTo(_, _)
ReferencesTo(i, from) ==
    IF from = {} THEN 0
    ELSE LET e == CHOOSE x \in from : TRUE
         IN  (IF IsEntity(cache[e]) THEN CountIn(cache[e].parents, i) ELSE 0)
             + ReferencesTo(i, from \ {e})

\* C12: the callback is called at most once for an id, and only for ids the
\* store has no schema for; an id it answered None for is in `missing`, an
\* id it answered with a schema is in the cache.
C12_FetchedOnce ==
    \A i \in AllIds :
        /\ calls[i] <= 1
        /\ calls[i] = 1 => (~cache0[i].present /\ (i \in missing \/ cache[i].present))
        /\ i \in missing => calls[i] = 1

\* C12 witness: the run ended, and an id that two parent references name
\* was asked for once and is missing.
C12_Witness ==
    /\ Finished
    /\ \E i \in UIds :
           /\ i \in missing
           /\ calls[i] = 1
           /\ ReferencesTo(i, AllIds) >= 2

(***************************************************************************)
(* name.rs: the NameResolver, with its callers in lib.rs (process) and     *)
(* entity.rs (generate).  A string is a sequence of tokens: a token is one *)
(* character, or one literal of the code ("mod", "entity") taken whole.    *)
(***************************************************************************)
MaxUrls == 3
MaxVersion == 2

\* The characters ids are made of: a letter, a digit and a separator, all
\* of which the `id` group of BLOCKPROTOCOL_FLAVOR (line 137) matches.
IdChars == {"a", "0", "-"}
\* Ids begin with a letter, so that their names are Rust identifiers.
Ids == {<<"a">>, <<"a", "0">>, <<"a", "-">>}
Namespaces == {<<"a">>}
Kinds == {"entity"}
\* Titles of the schemas whose URL no flavor matches.
Titles == {<<"a", " ", "0">>}
UrlOrigin == <<"o">>

SomeString(s) == [some |-> TRUE, value |-> s]
NoString == [some |-> FALSE, value |-> <<>>]

\* heck: a word is a maximal run of alphanumeric characters (the strings
\* of the model have no upper-case letters, so there is no boundary inside
\* a run).
IsAlphanumeric(c) == c \notin {"-", "_", " ", "/", ":", ".", "@"}

RECURSIVE SplitWords(_, _)
SplitWords(s, word) ==
    LET close == IF word = <<>> THEN <<>> ELSE <<word>>
    IN  IF s = <<>> THEN close
        ELSE IF IsAlphanumeric(Head(s)) THEN SplitWords(Tail(s), Append(word, Head(s)))
        ELSE close \o SplitWords(Tail(s), <<>>)

to_uppercase(c) == IF c = "a" THEN "A" ELSE IF c = "o" THEN "O" ELSE c

RECURSIVE JoinWords(_, _)
JoinWords(words, sep) ==
    IF words = <<>> THEN <<>>
    ELSE IF Len(words) = 1 THEN Head(words)
    ELSE Head(words) \o sep \o JoinWords(Tail(words), sep)

\* heck::ToPascalCase: each word with its first character in upper case,
\* the words joined without a separator.
to_pascal_case(s) ==
    LET words == SplitWords(s, <<>>)
    IN  JoinWords([i \in 1..Len(words) |->
                      <<to_uppercase(Head(words[i]))>> \o Tail(words[i])], <<>>)

\* heck::ToSnekCase: the words in lower case, joined by "_".
to_snek_case(s) == JoinWords(SplitWords(s, <<>>), <<"_">>)

\* format!("{}", n)
Display(n) == <<ToString(n)>>

\* The base URLs: those the Block Protocol flavor matches, and those no
\* flavor matches (their id field holds the path of the URL).
BaseUrls ==
    {[flavored |-> TRUE, namespace |-> ns, kind |-> k, id |-> i] :
        ns \in Namespaces, k \in Kinds, i \in Ids}
    \cup {[flavored |-> FALSE, namespace |-> <<>>, kind |-> "", id |-> i] : i \in {<<"a">>}}

\* Url::as_str of a base URL.
BaseUrlString(base) ==
    IF base.flavored
    THEN UrlOrigin \o <<"/", "@">> \o base.namespace \o <<"/", "types", "/", base.kind, "-type", "/">>
         \o base.id \o <<"/">>
    ELSE UrlOrigin \o <<"/">> \o base.id

\* The entries a store can hold: a schema with its VersionedUrl and title
\* (the title is read only when no flavor matches the URL).
StoreEntries ==
    {[url |-> [base |-> b, version |-> v], title |-> t] :
        b \in {x \in BaseUrls : ~x.flavored}, v \in 1..MaxVersion, t \in Titles}
    \cup {[url |-> [base |-> b, version |-> v], title |-> b.id] :
        b \in {x \in BaseUrls : x.flavored}, v \in 1..MaxVersion}

NoParts == [some |-> FALSE, origin |-> <<>>, namespace |-> <<>>, kind |-> "", id |-> <<>>]

\* lines 249-306, with the built-in flavor and no override (process adds none).
url_into_parts(base) ==
    IF base.flavored
    THEN [some |-> TRUE, origin |-> UrlOrigin, namespace |-> base.namespace,
          kind |-> base.kind, id |-> base.id]
    ELSE NoParts

\* self.lookup[url].title()
TitleOf(url) == (CHOOSE e \in schemas : e.url = url).title

\* Mutant: the filter of line 342 left out, the id itself is among the
\* versions.
other_versions_of_url_WithSelf(url) ==
    {e.url.version : e \in {x \in schemas : x.url.base = url.base}}

\* lines 338-345: the versions of the other ids of the same base URL.
other_versions_of_url(url) ==
    {e.url.version : e \in {x \in schemas : x.url.base = url.base /\ x.url # url}}

\* BTreeMap::last_key_value
LastKey(versions) == CHOOSE v \in versions : \A w \in versions : w <= v

\* Mutant: the version suffix is never added to the name.
determine_name_NoSuffix(url, parts, versions) ==
    LET name == IF parts.some THEN to_pascal_case(parts.id) ELSE to_pascal_case(TitleOf(url))
    IN  [value |-> name, alias |-> SomeString(name \o <<"V">> \o Display(url.version))]

\* lines 308-336
determine_name(url, parts, versions) ==
    LET name  == IF parts.some THEN to_pascal_case(parts.id) ELSE to_pascal_case(TitleOf(url))
        alias == name \o <<"V">> \o Display(url.version)
    IN  IF versions # {} /\ LastKey(versions) > url.version
        THEN [value |-> name \o <<"V">> \o Display(url.version), alias |-> NoString]
        ELSE [value |-> name, alias |-> SomeString(alias)]

\* NameResolver::new sets module to ModuleFlavor::ModRs (line 232).
module == "ModRs"

\* The other versions in the order of the BTreeMap (by version).
RECURSIVE IntoValues(_, _)
IntoValues(url, versions) ==
    IF versions = {} THEN <<>>
    ELSE LET v == CHOOSE x \in versions : \A w \in versions : x <= w
         IN  <<[base |-> url.base, version |-> v]>> \o IntoValues(url, versions \ {v})

\* lines 351-421
location(url) ==
    LET versions == other_versions_of_url(url)
        parts    == url_into_parts(url.base)
        path     == IF parts.some
                    THEN [dirs |-> <<to_snek_case(parts.origin), to_snek_case(parts.namespace),
                                     <<parts.kind>>>>,
                          file |-> to_snek_case(parts.id)]
                    ELSE [dirs |-> <<>>, file |-> to_snek_case(BaseUrlString(url.base))]
        name     == determine_name(url, parts, versions)
        nested   == Append(path.dirs, path.file)
    IN  IF versions = {}
        THEN [path |-> path, name |-> name, alias |-> NoString,
              kind |-> [tag |-> "Latest", other |-> <<>>]]
        ELSE IF LastKey(versions) > url.version
        THEN [path |-> [dirs |-> nested, file |-> <<"v">> \o Display(url.version)],
              name |-> name, alias |-> NoString,
              kind |-> [tag |-> "Version", other |-> <<>>]]
        ELSE [path |-> IF module = "ModRs" THEN [dirs |-> nested, file |-> <<"mod">>] ELSE path,
              name |-> name, alias |-> NoString,
              kind |-> [tag |-> "Latest", other |-> IntoValues(url, versions)]]

\* lines 426-459: the urls are grouped by the name of their location, in
\* the order they come in; in a group of several, each location gets the
\* name with its index in the group as its alias.
locations(urls) ==
    LET first == [u \in Range(urls) |-> location(u)]
        group(name) == SelectSeq(urls, LAMBDA u : first[u].name.value = name)
        index(u, g) == (CHOOSE i \in 1..Len(g) : g[i] = u /\ \A j \in 1..(i - 1) : g[j] # u) - 1
    IN  [u \in Range(urls) |->
            LET here == first[u]
                g    == group(here.name.value)
            IN  IF Len(g) > 1
                THEN [here EXCEPT !.alias = SomeString(here.name.value \o Display(index(u, g)))]
                ELSE here]

\* The order of VersionedUrl: by base URL, then by version.
TokenRank(c) ==
    CASE c = " " -> 1 [] c = "-" -> 2 [] c = "-type" -> 3 [] c = "/" -> 4 [] c = "0" -> 5
      [] c = "@" -> 6 [] c = "a" -> 7 [] c = "entity" -> 8 [] c = "o" -> 9
      [] c = "property" -> 10 [] c = "types" -> 11 [] OTHER -> 12

RECURSIVE StringLess(_, _)
StringLess(s, t) ==
    IF t = <<>> THEN FALSE
    ELSE IF s = <<>> THEN TRUE
    ELSE IF Head(s) = Head(t) THEN StringLess(Tail(s), Tail(t))
    ELSE TokenRank(Head(s)) < TokenRank(Head(t))

UrlLess(u, v) ==
    \/ StringLess(BaseUrlString(u.base), BaseUrlString(v.base))
    \/ u.base = v.base /\ u.version < v.version

\* Mutant: the references are left in the order they came in.
sort_Unsorted(sq) == sq

\* entity.rs 510: references.sort()
sort(sq) ==
    LET rank(u) == Cardinality({v \in Range(sq) : UrlLess(v, u)}) + 1
    IN  [i \in 1..Len(sq) |-> CHOOSE u \in Range(sq) : rank(u) = i]

NameInit ==
    /\ schemas = {}
    /\ handled = <<>>
    /\ output = <<>>
    /\ references = <<>>
    /\ generated = <<>>
    /\ batch = <<>>
    /\ located = <<>>
    /\ npc = "collect"
    /\ NoBuild
    /\ NoUnify
    /\ graph = EmptyGraph
    /\ graph0 = EmptyGraph
    /\ graph1 = EmptyGraph
    /\ round = 1
    /\ pc = "off"
    /\ iterations = IterationCap
    /\ plain = <<>>
    /\ visited = <<>>
    /\ cycles = <<>>
    /\ cursor = 1
    /\ stack = <<>>

\* lib.rs 162-165: one schema is collected into `lookup`.
Insert ==
    /\ npc = "collect"
    /\ Cardinality(schemas) < MaxUrls
    /\ \E e \in StoreEntries :
           /\ \A x \in schemas : x.url # e.url
           /\ schemas' = schemas \cup {e}
    /\ UNCHANGED <<handled, output, references, generated, batch, located, npc>>
    /\ UNCHANGED <<cycleVars, buildVars, unifyVars>>

\* lib.rs 170: NameResolver::new
NewResolver ==
    /\ npc = "collect"
    /\ schemas # {}
    /\ npc' = "process"
    /\ UNCHANGED <<schemas, handled, output, references, generated, batch, located>>
    /\ UNCHANGED <<cycleVars, buildVars, unifyVars>>

\* BTreeMap::insert
MapInsert(map, key, value) ==
    [k \in DOMAIN map \cup {key} |-> IF k = key THEN value ELSE map[k]]

\* lib.rs 174-189: one turn of `for value in lookup.values()`, in the order
\* the HashMap gives; the contents stored are named by the id of the schema.
ProcessValue ==
    /\ npc = "process"
    /\ \E e \in schemas :
           /\ e.url \notin DOMAIN handled
           /\ LET here == location(e.url)
              IN  /\ handled' = MapInsert(handled, e.url, here)
                  /\ output' = MapInsert(output, here.path, e.url)
    /\ UNCHANGED <<schemas, references, generated, batch, located, npc>>
    /\ UNCHANGED <<cycleVars, buildVars, unifyVars>>

\* The orders a HashMap or HashSet can give the ids of S in.
Orders(S) ==
    {sq \in [1..Cardinality(S) -> S] : \A i, j \in 1..Cardinality(S) : i # j => sq[i] # sq[j]}

UrlsOf(store) == {e.url : e \in store}

\* entity.rs 498-528 (entity::generate, and property::generate alike): the
\* references of a schema come in some order, are sorted, and locations is
\* called with them.  process calls generate in its loop; the call reads
\* the resolver only, and is taken here once the loop is through.
Generate ==
    /\ npc = "process"
    /\ DOMAIN handled = UrlsOf(schemas)
    /\ \E X \in SUBSET UrlsOf(schemas) :
           /\ X # {}
           /\ \E incoming \in Orders(X) :
                  /\ references' = sort(incoming)
                  /\ generated' = locations(references')
    /\ npc' = "generate"
    /\ UNCHANGED <<schemas, handled, output, batch, located>>
    /\ UNCHANGED <<cycleVars, buildVars, unifyVars>>

\* generate once more, in another run over the same schema: the same set
\* of references comes in another order.
Regenerate ==
    /\ npc = "generate"
    /\ \E incoming \in Orders(Range(references)) :
           /\ batch' = incoming
           /\ located' = locations(sort(incoming))
    /\ npc' = "regenerated"
    /\ UNCHANGED <<schemas, handled, output, references, generated>>
    /\ UNCHANGED <<cycleVars, buildVars, unifyVars>>

\* name.rs 426-459: a call of locations with the same ids as a batch in
\* the order given.
Locations ==
    /\ npc = "generate"
    /\ \E urls \in Orders(Range(references)) :
           /\ batch' = urls
           /\ located' = locations(urls)
    /\ npc' = "located"
    /\ UNCHANGED <<schemas, handled, output, references, generated>>
    /\ UNCHANGED <<cycleVars, buildVars, unifyVars>>

NameNext == Insert \/ NewResolver \/ ProcessValue \/ Generate \/ Regenerate \/ Locations
NameSpec == NameInit /\ [][NameNext]_vars

\* The identifier a location is imported under.
Identifier(l) == IF l.alias.some THEN l.alias.value ELSE l.name.value

\* C13: the identifiers locations assigns to the distinct ids of a batch are
\* pairwise distinct.
C13_DistinctIdentifiers ==
    npc = "located" =>
        \A u, v \in DOMAIN located :
            u # v => Identifier(located[u]) # Identifier(located[v])

\* C14 (as stated): locations gives every id the same name, alias and path
\* for two batches that hold the same ids in different orders.
C14_OrderIndependent ==
    npc = "located" =>
        \A u \in DOMAIN located :
            /\ located[u].name = generated[u].name
            /\ located[u].alias = generated[u].alias
            /\ located[u].path = generated[u].path

\* The ids of a batch before u that have the same name as u.
EarlierSameName(urls, u) ==
    {i \in 1..Len(urls) :
        /\ location(urls[i]).name.value = location(u).name.value
        /\ \E j \in (i + 1)..Len(urls) : urls[j] = u}

\* C14 (amended): for two batches of the same ids, locations gives every id
\* the same name, path and kind; the alias is the name suffixed with the
\* position of the id among the ids of the batch that share its name, in
\* batch order; generate sorts the references first, and gets the same
\* locations whatever order they came in.
C14_SortedFirst ==
    /\ npc = "regenerated" => located = generated
    /\ npc = "located" =>
           \A u \in DOMAIN located :
               /\ located[u].name = generated[u].name
               /\ located[u].path = generated[u].path
               /\ located[u].kind = generated[u].kind
               /\ located[u].alias.some =>
                      located[u].alias.value =
                          located[u].name.value \o Display(Cardinality(EarlierSameName(batch, u)))

\* C14 witness: generate got its references in an order that is not the
\* sorted one, and two of them share a name.
C14_Witness ==
    /\ npc = "regenerated"
    /\ batch # references
    /\ \E u \in DOMAIN located : located[u].alias.some

\* All versions of the base URL of u in the store, u's included.
VersionsOf(u) == {e.url.version : e \in {x \in schemas : x.url.base = u.base}}
BareName(u) == to_pascal_case(IF u.base.flavored THEN u.base.id ELSE TitleOf(u))
Slug(u) == to_snek_case(IF u.base.flavored THEN u.base.id ELSE BaseUrlString(u.base))
Depth(u) == IF u.base.flavored THEN 3 ELSE 0

\* C15: of the versions of one base URL in the store, the highest has kind
\* Latest and the name without a version suffix; every lower one has kind
\* Version, the name suffixed with V<version>, and a path one directory
\* deeper, under the slug, with the file name v<version>.
C15_VersionLayout ==
    \A u \in DOMAIN handled :
        LET l == handled[u]
        IN  IF \A w \in VersionsOf(u) : w <= u.version
            THEN /\ l.kind.tag = "Latest"
                 /\ l.name.value = BareName(u)
            ELSE /\ l.kind.tag = "Version"
                 /\ l.name.value = BareName(u) \o <<"V">> \o Display(u.version)
                 /\ Len(l.path.dirs) = Depth(u) + 1
                 /\ l.path.dirs[Len(l.path.dirs)] = Slug(u)
                 /\ l.path.file = <<"v">> \o Display(u.version)

\* C15 witness: process has the locations of all MaxVersion versions of one
\* base URL.
C15_Witness ==
    \E u \in DOMAIN handled :
        /\ u.version = 1
        /\ \A w \in 2..MaxVersion : [base |-> u.base, version |-> w] \in DOMAIN handled

\* C16: location gives any two distinct ids of the store different paths,
\* and process has one entry of output for each schema it handled.
C16_PathsDistinct ==
    /\ \A u, v \in DOMAIN handled : u # v => handled[u].path # handled[v].path
    /\ Cardinality(DOMAIN output) = Cardinality(DOMAIN handled)

(***************************************************************************)
(* The graph DependencyAnalyzer::new builds.                               *)
(***************************************************************************)
NoParallel(es) ==
    \A i, j \in 1..Len(es) :
        i # j => ~(es[i].source = es[j].source /\ es[i].target = es[j].target)

\* The edges of temp from the node of one id to the node of another.
EdgesBetween(source, target) ==
    {e \in 1..Len(temp.edges) :
        /\ temp.edges[e].source = lookup[source]
        /\ temp.edges[e].target = lookup[target]}

\* The kind of the last reference to `url` among the references `links`.
LastKind(links, url) ==
    links[CHOOSE i \in 1..Len(links) :
              /\ links[i].url = url
              /\ \A j \in (i + 1)..Len(links) : links[j].url # url].kind

\* C17: the graph under construction and the graph returned never have two
\* edges with the same source and target; the references of a schema the
\* loop is through with are each one edge, of the kind of the last
\* reference to that target.
C17_OneEdgePerPair ==
    /\ NoParallel(temp.edges)
    /\ NoParallel(graph.edges)
    /\ pc = "build" =>
           \A k \in 1..(tcursor - 1) :
               LET links == outgoing(types[k])
               IN  \A i \in 1..Len(links) :
                       /\ Cardinality(EdgesBetween(types[k].id, links[i].url)) = 1
                       /\ \A e \in EdgesBetween(types[k].id, links[i].url) :
                              temp.edges[e].kind = LastKind(links, links[i].url)

\* C17 witness: a schema that refers to one target twice, with different
\* kinds, has been built.
C17_Witness ==
    /\ pc = "build"
    /\ \E k \in 1..(tcursor - 1) :
           LET links == outgoing(types[k])
           IN  \E i, j \in 1..Len(links) :
                   /\ i < j
                   /\ links[i].url = links[j].url
                   /\ links[i].kind # links[j].kind

\* The ids the store has a schema for.
Defined == {types[k].id : k \in 1..Len(types)}

\* The references of the store, as (source id, target id, kind of the last
\* reference of the source to the target).
References ==
    UNION {{[source |-> types[k].id, target |-> outgoing(types[k])[i].url,
             kind   |-> LastKind(outgoing(types[k]), outgoing(types[k])[i].url)] :
               i \in 1..Len(outgoing(types[k]))} : k \in 1..Len(types)}

\* The edges of a built graph, by the ids of their nodes.
EdgesById(g) ==
    {[source |-> g.nodes[g.edges[e].source].id, target |-> g.nodes[g.edges[e].target].id,
      kind   |-> g.edges[e].kind] : e \in 1..Len(g.edges)}

OutgoingOf(id) ==
    {[target |-> temp.edges[e].target, kind |-> temp.edges[e].kind] :
        e \in {x \in 1..Len(temp.edges) : temp.edges[x].source = lookup[id]}}

\* C19: a data type the loop is through with has no outgoing edge; an
\* entity type has one edge for each target of its properties, Plain for a
\* single reference and Array for an array, and no other edge, whatever it
\* inherits from.
C19_OutgoingEdges ==
    pc = "build" =>
        \A k \in 1..(tcursor - 1) :
            LET ty == types[k]
            IN  /\ ty.variant = "Data" => OutgoingOf(ty.id) = {}
                /\ ty.variant = "Entity" =>
                       /\ OutgoingOf(ty.id) =
                              {[target |-> lookup[ty.properties[i].url],
                                kind   |-> IF ty.properties[i].array THEN "Array" ELSE "Plain"] :
                                  i \in 1..Len(ty.properties)}
                       /\ Cardinality({e \in 1..Len(temp.edges) :
                                          temp.edges[e].source = lookup[ty.id]})
                              = Len(ty.properties)

\* C19 witness: the loop is through with a data type and with an entity
\* type that has a property and inherits from an id none of its properties
\* refers to.
C19_Witness ==
    /\ pc = "build"
    /\ \E k \in 1..(tcursor - 1) : types[k].variant = "Data"
    /\ \E k \in 1..(tcursor - 1) :
           /\ types[k].variant = "Entity"
           /\ types[k].properties # <<>>
           /\ \E p \in Range(types[k].inherits_from) :
                  \A i \in 1..Len(types[k].properties) : types[k].properties[i].url # p

\* C20: a turn of remove_cycles that boxes an edge boxes one that occurs in
\* the cycles of the turn at least as often as every other edge, and among
\* the edges that occur as often, the one with the lowest index.
C20_BoxesMostFrequent ==
    [][(pc = "select" /\ graph' # graph) =>
          \E p \in 1..Len(plain) :
              /\ graph.edges[plain[p].weight].kind = "Plain"
              /\ graph'.edges[plain[p].weight].kind = "Boxed"
              /\ \A q \in 1..Len(plain) :
                     \/ Occurrences(cycles, q) < Occurrences(cycles, p)
                     \/ (Occurrences(cycles, q) = Occurrences(cycles, p) /\ p <= q)]_vars

(***************************************************************************)
(* Properties of the cycle search.                                         *)
(***************************************************************************)
\* The edges of `c` exist and chain head-to-tail into a closed walk.
ChainsClosed(es, c) ==
    /\ c # <<>>
    /\ \A i \in 1..Len(c) : c[i] \in 1..Len(es)
    /\ \A i \in 1..(Len(c) - 1) : es[c[i]].target = es[c[i + 1]].source
    /\ es[c[Len(c)]].target = es[c[1]].source

\* A directed cycle, listed along its edges or against them.
IsDirectedCycle(es, c) == ChainsClosed(es, c) \/ ChainsClosed(es, Reverse(c))

\* C21: every edge list find_cycles has recorded is a directed cycle of the
\* Plain projection: its edges exist, chain head-to-tail and close (from the
\* OnStack neighbour along the stack to the top and back to the neighbour).
C21_RecordedCyclesReal ==
    \A k \in 1..Len(cycles) : IsDirectedCycle(plain, cycles[k])

\* C22: against the graph the running call of remove_cycles was given, the
\* graph has the same nodes and the same edges with the same endpoints, and
\* every edge has the kind it had, or is Boxed where it was Plain: an Array
\* edge stays Array and a Boxed edge stays Boxed.
C22_OnlyPlainToBoxed ==
    /\ graph.nodes = graph1.nodes
    /\ Len(graph.edges) = Len(graph1.edges)
    /\ \A i \in 1..Len(graph1.edges) :
           /\ graph.edges[i].source = graph1.edges[i].source
           /\ graph.edges[i].target = graph1.edges[i].target
           /\ \/ graph.edges[i].kind = graph1.edges[i].kind
              \/ (graph1.edges[i].kind = "Plain" /\ graph.edges[i].kind = "Boxed")

\* The first call boxed an edge next to an Array edge, and the second call
\* returned with both as it got them.
C22_Witness ==
    /\ round = 2
    /\ pc = "done"
    /\ \E i, j \in 1..Len(graph.edges) :
           /\ graph0.edges[i].kind = "Plain"
           /\ graph1.edges[i].kind = "Boxed"
           /\ graph.edges[i].kind = "Boxed"
           /\ graph.edges[j].kind = "Array"

(***************************************************************************)
(* remove_cycles at its iteration cap: the graph is one node with n Plain  *)
(* self-loops (parallel edges, which add_edge allows), next to a Plain     *)
(* edge between two other nodes; every turn of `loop` boxes one self-loop. *)
(***************************************************************************)
SelfLoops(n) ==
    [nodes |-> <<TestNode(1), TestNode(2), TestNode(3)>>,
     edges |-> [i \in 1..(n + 1) |->
                  IF i = 1 THEN [source |-> 2, target |-> 3, kind |-> "Plain"]
                  ELSE [source |-> 1, target |-> 1, kind |-> "Plain"]]]

\* The graph after j turns of `loop`: find_cycles finds the self-loop added
\* last among those still Plain (line 91), and that one is boxed.
AfterTurns(g, j) ==
    [nodes |-> g.nodes,
     edges |-> [i \in 1..Len(g.edges) |->
                  IF i > Len(g.edges) - j THEN [g.edges[i] EXCEPT !.kind = "Boxed"]
                  ELSE g.edges[i]]]

\* remove_cycles is called on SelfLoops(n) with as many self-loops as the
\* cap allows turns, or one less. Behaviours start at the call or, being
\* IterationCap turns long, at the top of `loop` two turns before the cap is
\* used up, in the state the call has reached there.
CapInit ==
    /\ \E n \in {IterationCap - 1, IterationCap}, j \in {0, IterationCap - 2} :
           /\ graph0 = SelfLoops(n)
           /\ graph1 = graph0
           /\ graph = AfterTurns(graph0, j)
           /\ iterations = IterationCap - j
           /\ IF j = 0
              THEN /\ plain = <<>>
                   /\ visited = Unvisited(graph)
                   /\ cycles = <<>>
                   /\ cursor = 1
              ELSE /\ plain = PlainProjection(AfterTurns(graph0, j - 1))
                   /\ visited = [i \in 1..NodeCount(graph) |-> "Processed"]
                   /\ cycles = <<<<Len(plain)>>>>
                   /\ cursor = NodeCount(graph) + 1
    /\ stack = <<>>
    /\ round = 1
    /\ pc = "loop"
    /\ NoBuild
    /\ NoUnify
    /\ NoName

CapSpec == CapInit /\ [][Next]_vars

\* C23: remove_cycles raises its assertion only when the Plain edges of the
\* graph still form a cycle.
C23_PanicOnlyWithCycle == pc = "panic" => HasPlainCycle(graph)

\* A step of the cycle search keeps a Processed node Processed, and a node
\* it makes Processed is the top of the stack, is popped, and has no
\* outgoing neighbour other than itself that is not Processed.
SearchStepPops ==
    pc \in {"find", "dfs", "expand"} =>
        \A n \in 1..NodeCount(graph) :
            /\ (visited[n] = "Processed") => (visited'[n] = "Processed")
            /\ (visited[n] # "Processed" /\ visited'[n] = "Processed") =>
                  /\ stack # <<>>
                  /\ n = Top(stack)
                  /\ stack' = SubSeq(stack, 1, Len(stack) - 1)
                  /\ \A e \in 1..Len(plain) :
                         (plain[e].source = n) =>
                             (plain[e].target = n \/ visited[plain[e].target] = "Processed")

\* C24: during the cycle search a node is popped and marked Processed only
\* when every outgoing neighbour other than itself is Processed, and a
\* Processed node never becomes Unvisited or OnStack again.
C24_PoppedWhenNeighboursProcessed == [][SearchStepPops]_vars

\* The search has popped a node that has a neighbour other than itself.
C24_Witness ==
    /\ pc \in {"find", "dfs"}
    /\ \E e \in 1..Len(plain) :
           /\ plain[e].source # plain[e].target
           /\ visited[plain[e].source] = "Processed"

(***************************************************************************)
(* Properties of stack() and of the order of unification.                  *)
(***************************************************************************)
\* The parent references to the ids of S that the entity types the run
\* handled declare.
RECURSIVE ReferencesToAll(_)
ReferencesToAll(S) ==
    IF S = {} THEN 0
    ELSE LET i == CHOOSE x \in S : TRUE
         IN  ReferencesTo(i, AllIds) + ReferencesToAll(S \ {i})

IncompleteGraphs(errs) == Cardinality({k \in 1..Len(errs) : errs[k] = "IncompleteGraph"})

\* C25: a run that could not fetch some parent ids went through the whole
\* stack, looked up every parent of every entity type it handled, and
\* returns an error into which one IncompleteGraph was pushed for every
\* reference to a missing id, so at least one for each missing id.
C25_MissingAggregated ==
    (Finished /\ missing # {}) =>
        /\ returned.status = "IncompleteGraph"
        /\ ustack = <<>>
        /\ \A e \in AllIds : IsEntity(cache[e]) =>
               \A p \in Range(cache[e].parents) \ {LINK_REF} :
                   cache[p].present \/ p \in missing
        /\ \A i \in missing : ReferencesTo(i, AllIds) >= 1
        /\ IncompleteGraphs(errors) = ReferencesToAll(missing)
        /\ IncompleteGraphs(errors) >= Cardinality(missing)

\* C25 witness: the run ended with two distinct ids missing.
C25_Witness ==
    /\ Finished
    /\ returned.status = "IncompleteGraph"
    /\ Cardinality(missing) >= 2

\* C26: the order run unifies in names no id twice, and for every entity
\* type of the cache and every parent of it that is an entity type of the
\* cache, the parent comes before the child.
C26_AncestorsFirst ==
    (upc = "unify" \/ (Finished /\ topo # <<>>)) =>
        /\ \A k, l \in 1..Len(topo) : k # l => topo[k] # topo[l]
        /\ \A c \in AllIds : IsEntity(cache[c]) =>
               \A p \in Range(cache[c].parents) : IsEntity(cache[p]) =>
                   \E k, l \in 1..Len(topo) : k < l /\ topo[k] = p /\ topo[l] = c

(***************************************************************************)
(* Properties of the location kind.                                        *)
(***************************************************************************)
\* The other ids of the base URL of u in the store.
OtherIds(u) == {e.url : e \in {x \in schemas : x.url.base = u.base /\ x.url # u}}

\* C27: of the ids of one base URL in the store, the one with the highest
\* version, and no other, has kind Latest, and its list of other versions
\* holds each of the remaining ids of the base URL once and nothing else;
\* every remaining id has kind Version. An id that is alone for its base
\* URL is Latest with an empty list.
C27_LatestListsOthers ==
    \A u \in DOMAIN handled :
        LET l == handled[u]
        IN  IF \A v \in OtherIds(u) : v.version < u.version
            THEN /\ l.kind.tag = "Latest"
                 /\ Range(l.kind.other) = OtherIds(u)
                 /\ Len(l.kind.other) = Cardinality(OtherIds(u))
                 /\ \A v \in OtherIds(u) \cap DOMAIN handled :
                        handled[v].kind.tag = "Version"
            ELSE l.kind.tag = "Version"

\* C27 witness: process has the locations of all MaxVersion versions of a
\* base URL, and the highest lists the others.
C27_Witness ==
    \E u \in DOMAIN handled :
        /\ u.version = MaxVersion
        /\ Cardinality(OtherIds(u)) = MaxVersion - 1
        /\ OtherIds(u) \subseteq DOMAIN handled
        /\ Len(handled[u].kind.other) = MaxVersion - 1

(***************************************************************************)
(* Stores with references to an id that has no schema: data types and      *)
(* entity types over SchemaIds whose properties refer to SchemaIds or to   *)
(* DanglingId.                                                             *)
(***************************************************************************)
DanglingRefs == [url : SchemaIds \cup {DanglingId}, array : BOOLEAN]

DanglingPropertySeqs(n) ==
    {ps \in UNION {[1..k -> DanglingRefs] : k \in 1..n} :
        \A i, j \in 1..Len(ps) : i # j => ps[i].url # ps[j].url}

DanglingTypes(i, n) ==
    DataTypes(i)
    \cup {[id |-> i, variant |-> "Entity", properties |-> ps, inherits_from |-> <<>>] :
             ps \in {<<>>} \cup DanglingPropertySeqs(n)}

\* The stores of them with at most n references in all.
DanglingStores(n) ==
    {<<t>> : t \in UNION {DanglingTypes(i, n) : i \in SchemaIds}}
    \cup UNION {UNION {{<<t, u>>, <<u, t>>} : u \in DanglingTypes("b", n - Len(outgoing(t)))} :
                  t \in DanglingTypes("a", n)}

DanglingInit == types \in DanglingStores(MaxLinks) /\ BuildStart
DanglingSpec == DanglingInit /\ [][BuildNext]_vars

\* C28: when DependencyAnalyzer::new has returned, lookup has for the id of
\* every schema of the store the index of a node of the graph, and that
\* node carries the id.
C28_LookupCurrent ==
    Returned =>
        \A k \in 1..Len(types) :
            /\ lookup[types[k].id] \in 1..Len(graph.nodes)
            /\ graph.nodes[lookup[types[k].id]].id = types[k].id

(***************************************************************************)
(* References by value and the kind of their edge.                         *)
(***************************************************************************)
\* The targets `ty` refers to outside any array: the urls add_link is
\* handed with EdgeKind::Plain.
ByValueTargets(ty) ==
    {outgoing(ty)[i].url : i \in {j \in 1..Len(outgoing(ty)) : outgoing(ty)[j].kind = "Plain"}}

\* The kinds of the edges of g from the node of id a to the node of id b.
KindsBetween(g, a, b) ==
    {g.edges[e].kind :
        e \in {i \in 1..Len(g.edges) : /\ g.nodes[g.edges[i].source].id = a
                                       /\ g.nodes[g.edges[i].target].id = b}}

\* C29: once the graph is built, the edge from a schema to a schema it
\* refers to by value is Plain in the graph handed to remove_cycles and
\* Plain or Boxed from then on, whatever other references the schema has to
\* the same target.
C29_ByValueNeverArray ==
    pc # "build" =>
        \A k \in 1..Len(types) :
            \A u \in ByValueTargets(types[k]) \cap {types[j].id : j \in 1..Len(types)} :
                /\ KindsBetween(graph0, types[k].id, u) = {"Plain"}
                /\ KindsBetween(graph, types[k].id, u) # {}
                /\ KindsBetween(graph, types[k].id, u) \subseteq {"Plain", "Boxed"}

(***************************************************************************)
(* unify_entity with the answers of the calls it makes into type_system    *)
(* and serde_json: each of merge (line 146), to_value (152), from_value    *)
(* (157) and try_into (161) answers a Result, and an Err leaves            *)
(* unify_entity through `?` (lines 149, 154, 159, 164), before the insert  *)
(* of lines 166-167.                                                       *)
(***************************************************************************)
\* What the calls of one unify_entity answer: all Ok, or the first Err.
UnifyOutcomes == {"Ok", "Merge", "UnificationSerde", "UnificationConvert"}

\* lines 128-169 under the outcome; merge is called once for each parent
unify_entity_with(c, id, outcome) ==
    IF unify_entity(c, id).status # "Ok" THEN unify_entity(c, id)
    ELSE IF outcome = "Ok" \/ (outcome = "Merge" /\ c[id].parents = <<>>)
    THEN unify_entity(c, id)
    ELSE [status |-> outcome, cache |-> [c EXCEPT ![id] = NoSchema]]

\* lines 171-181
unify_with(c, id, outcome) ==
    IF c[id].present /\ c[id].kind = "Entity" THEN unify_entity_with(c, id, outcome)
    ELSE unify(c, id)

\* One turn of `for id in stack` (lines 242-244), an Err of unify pushed to
\* the accumulator.
UUnifyResult ==
    /\ upc = "unify"
    /\ upos <= Len(topo)
    /\ \E outcome \in UnifyOutcomes :
       \E done \in {unify_with(cache, topo[upos], outcome)} :
           IF done.status = "panic"
           THEN /\ returned' = [status |-> "panic", map |-> EmptyCache]
                /\ upc' = "done"
                /\ UNCHANGED <<cache, upos, errors>>
           ELSE /\ cache' = done.cache
                /\ errors' = IF done.status = "Ok" THEN errors
                             ELSE AccPush(errors, done.status)
                /\ upos' = upos + 1
                /\ UNCHANGED <<returned, upc>>
    /\ UNCHANGED <<cache0, remote, hasFetch, missing, ustack, unodes, uedges, turns, topo>>
    /\ UNCHANGED <<facts, calls>>
    /\ UNCHANGED <<cycleVars, buildVars, nameVars>>

ResultNext == UStart \/ UPop \/ UToposort \/ UUnifyResult \/ UReturn

ResultSpec == UnifyInit /\ [][ResultNext]_vars

\* C30: while run unifies and after it, the cache has a schema for every id
\* the store had one for and for every id of the order stack() answered.
C30_CacheKeepsIds ==
    upc \in {"unify", "done"} =>
        \A i \in AllIds :
            (cache0[i].present \/ \E k \in 1..Len(topo) : topo[k] = i) => cache[i].present
====
